---- MODULE Spec2Model ----
(***************************************************************************)
(* BIOTICA: the IBR composite scoring and classification engine.           *)
(*                                                                         *)
(* Numbers.  Parameter values, weights and uncertainties are the source's  *)
(* decimals counted in hundredths (0.88 is 88, a weight of 0.20 is 20), so  *)
(* a contribution value*weight and a score are counted in ten-thousandths  *)
(* (0.45 is 4500).  A quotient score/total_weight is kept as the pair      *)
(* [num, den] and compared by cross-multiplication, so every comparison    *)
(* the code makes is exact.                                                *)
(***************************************************************************)
EXTENDS Integers, Sequences, FiniteSets, TLC

(***************************************************************************)
(* Bounds of the model.                                                    *)
(***************************************************************************)
\* at most this many values outside [0,1] in a mapping handed to compute_ibr
MaxOutOfRange == 1

\* at most this many calls that write to the parameters of an IBRComposite
MaxMutations == 2

(***************************************************************************)
(* BIOTICACore (equations_fixed.py).                                       *)
(***************************************************************************)
\* a weight table whose entries add up to more than 1
IBR_WEIGHTS_Heavy ==
    [VCA |-> 25, MDI |-> 15, PTS |-> 12, HFI |-> 11, BNC |-> 10,
     SGH |-> 9, AES |-> 8, TMI |-> 8, RRC |-> 7]

\* IBR_WEIGHTS, in hundredths
IBR_WEIGHTS ==
    [VCA |-> 20, MDI |-> 15, PTS |-> 12, HFI |-> 11, BNC |-> 10,
     SGH |-> 9, AES |-> 8, TMI |-> 8, RRC |-> 7]

\* IBR_WEIGHTS.items(): a dict iterates in insertion order
WeightOrder == <<"VCA", "MDI", "PTS", "HFI", "BNC", "SGH", "AES", "TMI", "RRC">>

\* class IBRClass
IBRClass == {"PRISTINE", "FUNCTIONAL", "IMPAIRED", "DEGRADED", "COLLAPSED"}

\* the thresholds of the classification chain, in hundredths
PristineAbove == 88
FunctionalAbove == 75
ImpairedAbove == 60
DegradedAbove == 45

NoContributions == [n \in {} |-> 0]

\* a quotient num/den (den > 0), in hundredths
Quot(num, den) == [num |-> num, den |-> den]

\* the comparison written with >= instead of >
QuotAtLeast(q, c) == q.num >= c * q.den

\* q > c/100, for a threshold c given in hundredths
QuotAbove(q, c) == q.num > c * q.den

\* the if/elif chain on normalized_score
ClassifyNormalized(ns) ==
    IF QuotAbove(ns, PristineAbove) THEN "PRISTINE"
    ELSE IF QuotAbove(ns, FunctionalAbove) THEN "FUNCTIONAL"
    ELSE IF QuotAbove(ns, ImpairedAbove) THEN "IMPAIRED"
    ELSE IF QuotAbove(ns, DegradedAbove) THEN "DEGRADED"
    ELSE "COLLAPSED"

\* the loop without its "if param in parameters" test: an absent parameter counts as 0
RECURSIVE IbrLoopNoTest(_, _, _)
IbrLoopNoTest(parameters, i, acc) ==
    IF i > Len(WeightOrder) THEN acc
    ELSE LET param == WeightOrder[i]
             weight == IBR_WEIGHTS[param]
             contrib == (IF param \in DOMAIN parameters THEN parameters[param] ELSE 0) * weight
         IN  IbrLoopNoTest(parameters, i + 1,
                [raw_score |-> acc.raw_score + contrib,
                 total_weight |-> acc.total_weight + weight,
                 contributions |-> (param :> contrib) @@ acc.contributions])

\* the loop with the stress parameter AES entered as 1 - value
RECURSIVE IbrLoopInverted(_, _, _)
IbrLoopInverted(parameters, i, acc) ==
    IF i > Len(WeightOrder) THEN acc
    ELSE LET param == WeightOrder[i]
             weight == IBR_WEIGHTS[param]
         IN  IF param \in DOMAIN parameters
             THEN LET contrib == (IF param = "AES" THEN 100 - parameters[param]
                                  ELSE parameters[param]) * weight
                  IN  IbrLoopInverted(parameters, i + 1,
                        [raw_score |-> acc.raw_score + contrib,
                         total_weight |-> acc.total_weight + weight,
                         contributions |-> (param :> contrib) @@ acc.contributions])
             ELSE IbrLoopInverted(parameters, i + 1, acc)

\* one pass of "for param, weight in self.IBR_WEIGHTS.items()" from position i
RECURSIVE IbrLoop(_, _, _)
IbrLoop(parameters, i, acc) ==
    IF i > Len(WeightOrder) THEN acc
    ELSE LET param == WeightOrder[i]
             weight == IBR_WEIGHTS[param]
         IN  IF param \in DOMAIN parameters
             THEN LET contrib == parameters[param] * weight
                  IN  IbrLoop(parameters, i + 1,
                        [raw_score |-> acc.raw_score + contrib,
                         total_weight |-> acc.total_weight + weight,
                         contributions |-> (param :> contrib) @@ acc.contributions])
             ELSE IbrLoop(parameters, i + 1, acc)

\* the raw score passed on without the division by total_weight
NormalizeNoDivide(raw_score, total_weight) == Quot(raw_score, 100)

\* normalized_score = raw_score / total_weight if total_weight > 0 else 0
Normalize(raw_score, total_weight) ==
    IF total_weight > 0 THEN Quot(raw_score, total_weight) ELSE Quot(0, 1)

\* BIOTICACore.compute_ibr(parameters)
compute_ibr(parameters) ==
    LET acc == IbrLoop(parameters, 1,
                       [raw_score |-> 0, total_weight |-> 0,
                        contributions |-> NoContributions])
        normalized_score == Normalize(acc.raw_score, acc.total_weight)
    IN  [score |-> acc.raw_score,
         normalized_score |-> normalized_score,
         classification |-> ClassifyNormalized(normalized_score),
         contributions |-> acc.contributions,
         uncertainty |-> 5,
         confidence |-> 95]

(***************************************************************************)
(* BIOTICACore, the part composite.py calls that equations_fixed.py does   *)
(* not hold.                                                               *)
(***************************************************************************)
\* BIOTICACore._classify_ibr(score), score in ten-thousandths: the threshold table
classify_ibr(score) ==
    IF score > 100 * PristineAbove THEN "PRISTINE"
    ELSE IF score > 100 * FunctionalAbove THEN "FUNCTIONAL"
    ELSE IF score > 100 * ImpairedAbove THEN "IMPAIRED"
    ELSE IF score > 100 * DegradedAbove THEN "DEGRADED"
    ELSE "COLLAPSED"

\* BIOTICACore.compute_vca .. compute_rrc on the fields of one raw record: a
\* ParameterResult whose value is in [0,1]; raw.level stands for what the
\* record's readings come to
ParameterFromRaw(param, raw) ==
    [value |-> raw.level, uncertainty |-> 5, confidence |-> 95]

(***************************************************************************)
(* IBRComposite (ibr/composite.py).                                        *)
(*                                                                         *)
(* self.parameters is a function from the stored names to entries          *)
(* [value, uncertainty, has_metadata]; has_metadata tells whether the      *)
(* entry has the 'metadata' key set_parameter_result adds.  A list of      *)
(* warnings is kept as the set of its messages (no message occurs twice in *)
(* one list); a message is [kind, names, value], the template and what is  *)
(* formatted into it.  An optional argument is {} for None and {x} for x.  *)
(***************************************************************************)
NoParameters == [n \in {} |-> 0]

\* the names used here that contain the text 'Missing'
NameHasMissing(name) == name \in {"MissingData"}

Entry(value, uncertainty, has_metadata) ==
    [value |-> value, uncertainty |-> uncertainty, has_metadata |-> has_metadata]

\* "uncertainty or 0.05": None and 0 are both falsy
UncertaintyOrDefault(uncertainty) ==
    IF uncertainty = {} \/ uncertainty = {0} THEN 5
    ELSE CHOOSE u \in uncertainty : TRUE

\* set_parameter that stores before it checks the range
set_parameter_StoreFirst(parameters, name, value, uncertainty) ==
    [raised |-> ~(0 <= value /\ value <= 100),
     parameters |-> (name :> Entry(value, UncertaintyOrDefault(uncertainty), FALSE))
                    @@ parameters]

\* IBRComposite.set_parameter(name, value, uncertainty): the outcome and the store
set_parameter(parameters, name, value, uncertainty) ==
    IF ~(0 <= value /\ value <= 100)
    THEN [raised |-> TRUE, parameters |-> parameters]
    ELSE [raised |-> FALSE,
          parameters |-> (name :> Entry(value, UncertaintyOrDefault(uncertainty), FALSE))
                         @@ parameters]

\* a set_parameters that checks every value before it stores any
set_parameters_Atomic(parameters, params) ==
    IF \E i \in 1..Len(params) : ~(0 <= params[i].value /\ params[i].value <= 100)
    THEN [raised |-> TRUE, parameters |-> parameters]
    ELSE [raised |-> FALSE,
          parameters |->
            [n \in DOMAIN parameters \cup {params[i].name : i \in 1..Len(params)} |->
                IF \E i \in 1..Len(params) : params[i].name = n
                THEN Entry((CHOOSE x \in {params[i] : i \in 1..Len(params)} :
                               x.name = n).value, 5, FALSE)
                ELSE parameters[n]]]

\* IBRComposite.set_parameters(params): params is the mapping's items in order;
\* the loop ends at the first set_parameter that raises
RECURSIVE set_parameters(_, _)
set_parameters(parameters, params) ==
    IF params = << >> THEN [raised |-> FALSE, parameters |-> parameters]
    ELSE LET one == set_parameter(parameters, Head(params).name, Head(params).value, {})
         IN  IF one.raised THEN one
             ELSE set_parameters(one.parameters, Tail(params))

\* IBRComposite.set_parameter_result(name, result)
set_parameter_result(parameters, name, result) ==
    (name :> Entry(result.value, result.uncertainty, TRUE)) @@ parameters

Warning(kind, names, value) == [kind |-> kind, names |-> names, value |-> value]

\* 'Missing' in w
TextHasMissing(w) == w.kind = "Missing" \/ \E n \in w.names : NameHasMissing(n)

\* is_valid that does not look at the warnings
IsValidAlways(warnings) == TRUE

\* is_valid that an out-of-range warning makes false as well
IsValidInRange(warnings) ==
    Cardinality({w \in warnings : TextHasMissing(w) \/ w.kind = "OutOfRange"}) = 0

\* is_valid = len([w for w in warnings if 'Missing' in w]) == 0
IsValid(warnings) == Cardinality({w \in warnings : TextHasMissing(w)}) = 0

\* IBRComposite.validate_parameters()
validate_parameters(parameters) ==
    LET required_params == DOMAIN IBR_WEIGHTS
        provided_params == DOMAIN parameters
        missing == required_params \ provided_params
        extra == provided_params \ required_params
        warnings ==
            (IF missing # {} THEN {Warning("Missing", missing, 0)} ELSE {})
            \cup (IF extra # {} THEN {Warning("Extra", extra, 0)} ELSE {})
            \cup {Warning("OutOfRange", {n}, parameters[n].value) :
                    n \in {x \in provided_params :
                            ~(0 <= parameters[x].value /\ parameters[x].value <= 100)}}
            \cup {Warning("CriticalLow", {n}, parameters[n].value) :
                    n \in {x \in provided_params : parameters[x].value < 20}}
            \cup {Warning("UnusuallyHigh", {n}, parameters[n].value) :
                    n \in {x \in provided_params :
                            ~(parameters[x].value < 20) /\ parameters[x].value > 95}}
    IN  [is_valid |-> IsValid(warnings), warnings |-> warnings]

\* the "Calculate IBR" and "Calculate uncertainty" loops of compute, from position i
RECURSIVE CompositeLoop(_, _, _)
CompositeLoop(param_values, i, acc) ==
    IF i > Len(WeightOrder) THEN acc
    ELSE LET param == WeightOrder[i]
             weight == IBR_WEIGHTS[param]
         IN  IF param \in DOMAIN param_values
             THEN LET contrib == param_values[param].value * weight
                  IN  CompositeLoop(param_values, i + 1,
                        [ibr_score |-> acc.ibr_score + contrib,
                         contributions |-> (param :> contrib) @@ acc.contributions,
                         uncertainty_sq |-> acc.uncertainty_sq
                             + (weight * weight)
                               * (param_values[param].uncertainty
                                  * param_values[param].uncertainty)])
             ELSE CompositeLoop(param_values, i + 1, acc)

\* IBRComposite._apply_biome_correction(score, params)
apply_biome_correction(score, params) == score

\* post-score warnings without the elif branch
ScoreWarnings_NoElif(ibr_score) ==
    IF ibr_score < 100 * DegradedAbove THEN {Warning("COLLAPSED", {}, 0)} ELSE {}

\* the warnings compute appends after scoring
ScoreWarnings(ibr_score) ==
    IF ibr_score < 100 * DegradedAbove THEN {Warning("COLLAPSED", {}, 0)}
    ELSE IF ibr_score < 100 * ImpairedAbove THEN {Warning("DEGRADED", {}, 0)}
    ELSE {}

\* IBRComposite.compute(validate): [raised, error] or [raised, result].
\* uncertainty is kept as its square, in units of 10^-8.
compute(parameters, plot_id, biome, validate) ==
    LET checked == validate_parameters(parameters)
    IN  IF validate /\ ~checked.is_valid
        THEN [raised |-> TRUE, error |-> checked.warnings]
        ELSE
          LET warnings == IF validate THEN checked.warnings ELSE {}
              used == DOMAIN parameters \cap DOMAIN IBR_WEIGHTS
              param_values == [n \in used |-> parameters[n]]
              acc == CompositeLoop(param_values, 1,
                        [ibr_score |-> 0, contributions |-> NoContributions,
                         uncertainty_sq |-> 0])
              ibr_score == IF biome # "None"
                           THEN apply_biome_correction(acc.ibr_score, param_values)
                           ELSE acc.ibr_score
          IN  [raised |-> FALSE,
               result |->
                 [score |-> ibr_score,
                  classification |-> classify_ibr(ibr_score),
                  contributions |-> acc.contributions,
                  uncertainty_sq |-> acc.uncertainty_sq,
                  plot_id |-> plot_id,
                  biome |-> biome,
                  warnings |-> warnings \cup ScoreWarnings(ibr_score),
                  metadata |-> [n_parameters |-> Cardinality(used),
                                validation_passed |-> validate,
                                method |-> "weighted_sum"]]]

\* the raw fields compute_from_raw asks for before it derives a parameter
RawGroups ==
    [VCA |-> {"ndvi", "lai", "gpp"},
     MDI |-> {"shannon", "chao1", "otus"},
     PTS |-> {"greenup_doy", "historical_greenup"},
     HFI |-> {"precipitation", "evapotranspiration", "soil_moisture", "runoff"},
     BNC |-> {"nitrogen", "phosphorus", "potassium", "organic_matter"},
     SGH |-> {"heterozygosity", "allele_richness", "fst", "population_size"},
     AES |-> {"human_footprint", "fragmentation", "pollution_index",
              "distance_to_disturbance"},
     TMI |-> {"connectance", "modularity", "trophic_levels", "omnivory"},
     RRC |-> {"recovery_rate", "resilience", "seed_bank", "soil_organic_carbon"}]

\* all(k in raw_data for k in [...]) for the group of param
Derivable(param, raw) == RawGroups[param] \subseteq raw.fields

\* the nine "if all(...): self.set_parameter_result(...)" blocks, from position i
RECURSIVE DeriveLoop(_, _, _)
DeriveLoop(parameters, raw, i) ==
    IF i > Len(WeightOrder) THEN parameters
    ELSE LET param == WeightOrder[i]
         IN  IF Derivable(param, raw)
             THEN DeriveLoop(set_parameter_result(parameters, param,
                                                  ParameterFromRaw(param, raw)),
                             raw, i + 1)
             ELSE DeriveLoop(parameters, raw, i + 1)

\* IBRComposite.compute_from_raw(raw_data): the store it leaves and compute's outcome
compute_from_raw(plot_id, biome, raw) ==
    LET derived == DeriveLoop(NoParameters, raw, 1)
    IN  [parameters |-> derived, outcome |-> compute(derived, plot_id, biome, TRUE)]

\* datetime.isoformat(): the text form of a timestamp [day, microsecond]
isoformat(timestamp) == <<"T", timestamp.day, timestamp.microsecond>>

\* confidence = 1.0 - uncertainty, with uncertainty kept as its square
Confidence(uncertainty_sq) == [one_minus_sqrt_of |-> uncertainty_sq]

\* the IBRResult compute builds: the fields it passes, confidence, and the
\* timestamp the dataclass takes from datetime.now
IBRResult(result, timestamp) ==
    [score |-> result.score,
     classification |-> result.classification,
     contributions |-> result.contributions,
     uncertainty |-> result.uncertainty_sq,
     confidence |-> Confidence(result.uncertainty_sq),
     timestamp |-> timestamp,
     plot_id |-> result.plot_id,
     biome |-> result.biome,
     warnings |-> result.warnings,
     metadata |-> result.metadata]

\* IBRResult.to_dict(): classification and biome are replaced by their .value
\* (the text of the member; the biome entry is {} for None, else {value}) and
\* timestamp by its isoformat
to_dict(self) ==
    [score |-> self.score,
     classification |-> [value |-> self.classification],
     contributions |-> self.contributions,
     uncertainty |-> self.uncertainty,
     confidence |-> self.confidence,
     timestamp |-> isoformat(self.timestamp),
     plot_id |-> self.plot_id,
     biome |-> IF self.biome # "None" THEN {[value |-> self.biome]} ELSE {},
     warnings |-> self.warnings,
     metadata |-> self.metadata]

(***************************************************************************)
(* TippingPointDetector (statistics/tipping_points.py).                    *)
(*                                                                         *)
(* A timeseries is described by what detect reads of it: its length, the   *)
(* number of NaN entries, and the eight numbers stats.kendalltau returns   *)
(* for the rolling statistics computed over it.  Trends (tau) are in       *)
(* hundredths, p-values and significance_level in thousandths, confidence  *)
(* in hundredths.  The optional timestamps argument is {} for None or      *)
(* {d}, d the median difference of consecutive timestamps.  warning_level  *)
(* is accumulated in halves.                                               *)
(***************************************************************************)
\* float('nan'), which stats.kendalltau returns for fewer than two points or a
\* constant sequence; every comparison with it is false
NaN == -1000000

Less(a, b) == a # NaN /\ b # NaN /\ a < b

Greater(a, b) == a # NaN /\ b # NaN /\ a > b

\* abs(x)
Abs(x) == IF x = NaN THEN NaN ELSE IF x < 0 THEN -x ELSE x

\* the statistics of a sequence kendalltau cannot rank
NaNStats ==
    [tau_var |-> NaN, p_var |-> NaN, tau_ac |-> NaN, p_ac |-> NaN,
     tau_skew |-> NaN, p_skew |-> NaN, tau_rec |-> NaN, p_rec |-> NaN]

\* TippingPointDetector.__init__
NewDetector(window, lag, min_data_points, significance_level, detrend) ==
    [window |-> window, lag |-> lag, min_data_points |-> min_data_points,
     significance_level |-> significance_level, detrend |-> detrend]

\* the result of both degraded paths, which differ in the metadata note
DegradedResult(note) ==
    [critical_slowing_down |-> FALSE,
     warning_level |-> 0,
     variance_trend |-> 0,
     autocorrelation_trend |-> 0,
     skewness_trend |-> 0,
     recovery_rate_trend |-> 0,
     estimated_months |-> 0,
     confidence |-> 0,
     metrics |-> << >>,
     metadata |-> [error |-> note]]

\* TippingPointDetector._fallback_result()
fallback_result == DegradedResult("SciPy not available")

\* an accumulation in which the key indicators have no half-point branch
WarningHalves_NoElif(self, st) ==
    (IF Greater(st.tau_var, 20) /\ Less(st.p_var, self.significance_level) THEN 2 ELSE 0)
    + (IF Greater(st.tau_ac, 20) /\ Less(st.p_ac, self.significance_level) THEN 2 ELSE 0)
    + (IF Greater(Abs(st.tau_skew), 15) /\ Less(st.p_skew, self.significance_level)
       THEN 1 ELSE 0)
    + (IF Less(st.tau_rec, -15) /\ Less(st.p_rec, self.significance_level)
       THEN 1 ELSE 0)

\* the "Determine warning level" block of detect, in halves, before floor and min
WarningHalves(self, st) ==
    (IF Greater(st.tau_var, 20) /\ Less(st.p_var, self.significance_level) THEN 2
     ELSE IF Greater(st.tau_var, 10) THEN 1 ELSE 0)
    + (IF Greater(st.tau_ac, 20) /\ Less(st.p_ac, self.significance_level) THEN 2
       ELSE IF Greater(st.tau_ac, 10) THEN 1 ELSE 0)
    + (IF Greater(Abs(st.tau_skew), 15) /\ Less(st.p_skew, self.significance_level)
       THEN 1 ELSE 0)
    + (IF Less(st.tau_rec, -15) /\ Less(st.p_rec, self.significance_level)
       THEN 1 ELSE 0)

\* the indicators list of detect, as the set of its entries
Indicators(self, st) ==
    (IF Greater(st.tau_var, 20) /\ Less(st.p_var, self.significance_level)
     THEN {"variance_increase"}
     ELSE IF Greater(st.tau_var, 10) THEN {"variance_increase_trend"} ELSE {})
    \cup (IF Greater(st.tau_ac, 20) /\ Less(st.p_ac, self.significance_level)
          THEN {"autocorrelation_increase"}
          ELSE IF Greater(st.tau_ac, 10) THEN {"autocorrelation_trend"} ELSE {})
    \cup (IF Greater(Abs(st.tau_skew), 15) /\ Less(st.p_skew, self.significance_level)
          THEN {"skewness_change"} ELSE {})
    \cup (IF Less(st.tau_rec, -15) /\ Less(st.p_rec, self.significance_level)
          THEN {"recovery_slowing"} ELSE {})

\* a warning level that counts the half steps and is neither floored nor capped
WarningLevel_Halves(halves) == halves

\* min(int(np.floor(warning_level)), 3)
WarningLevel(halves) == IF halves \div 2 < 3 THEN halves \div 2 ELSE 3

\* months_per_step of _estimate_time_to_tipping, in thousandths of a month
MonthsPerStep(n_points, timestamps) ==
    IF timestamps # {} /\ n_points > 1
    THEN LET median_step == CHOOSE d \in timestamps : TRUE
         IN  IF median_step <= 31 THEN 33
             ELSE IF median_step <= 365 THEN 1000
             ELSE 12000
    ELSE 1000

\* an estimate that multiplies the months by months_per_step
estimate_time_to_tipping_Scaled(tau_var, tau_ac, n_points, timestamps) ==
    LET trend_strength2 == IF tau_var = NaN \/ tau_ac = NaN THEN NaN
                           ELSE Abs(tau_var) + Abs(tau_ac)
        months == IF Greater(trend_strength2, 60) THEN 12
                  ELSE IF Greater(trend_strength2, 40) THEN 24
                  ELSE IF Greater(trend_strength2, 20) THEN 36
                  ELSE 60
    IN  (months * MonthsPerStep(n_points, timestamps)) \div 1000

\* TippingPointDetector._estimate_time_to_tipping: months_per_step is computed
\* and not used; twice the trend strength is compared, to stay in integers
estimate_time_to_tipping(tau_var, tau_ac, n_points, timestamps) ==
    LET months_per_step == MonthsPerStep(n_points, timestamps)
        trend_strength2 == IF tau_var = NaN \/ tau_ac = NaN THEN NaN
                           ELSE Abs(tau_var) + Abs(tau_ac)
    IN  IF Greater(trend_strength2, 60) THEN 12
        ELSE IF Greater(trend_strength2, 40) THEN 24
        ELSE IF Greater(trend_strength2, 20) THEN 36
        ELSE 60

\* a confidence that is not capped at 1.0
calculate_confidence_NoCap(warning_level, p_var, p_ac, n_points) ==
    warning_level * 20
    + (IF Less(p_var, 10) THEN 20 ELSE IF Less(p_var, 50) THEN 10 ELSE 0)
    + (IF Less(p_ac, 10) THEN 20 ELSE IF Less(p_ac, 50) THEN 10 ELSE 0)
    + (IF n_points > 200 THEN 20 ELSE IF n_points > 100 THEN 10 ELSE 0)

\* TippingPointDetector._calculate_confidence
calculate_confidence(warning_level, p_var, p_ac, n_points) ==
    LET confidence ==
            warning_level * 20
            + (IF Less(p_var, 10) THEN 20 ELSE IF Less(p_var, 50) THEN 10 ELSE 0)
            + (IF Less(p_ac, 10) THEN 20 ELSE IF Less(p_ac, 50) THEN 10 ELSE 0)
            + (IF n_points > 200 THEN 20 ELSE IF n_points > 100 THEN 10 ELSE 0)
    IN  IF confidence < 100 THEN confidence ELSE 100

\* a length test against the window instead of min_data_points
TooShort_Window(self, n_points) == n_points < self.window

\* len(timeseries) < self.min_data_points
TooShort(self, n_points) == n_points < self.min_data_points

\* TippingPointDetector.detect(timeseries, timestamps, variable_name):
\* [raised, error] or [raised, result]
detect(scipy_available, self, timeseries, timestamps, variable_name) ==
    IF ~scipy_available THEN [raised |-> FALSE, result |-> fallback_result]
    ELSE
      LET n_points == timeseries.len - timeseries.nans
          n_rolling == n_points - self.window
      IN  IF TooShort(self, n_points)
          THEN [raised |-> FALSE, result |-> DegradedResult("Insufficient data")]
          ELSE IF self.detrend /\ n_points = 0
          THEN [raised |-> TRUE, error |-> "TypeError"]
          ELSE IF n_rolling < 0
          THEN [raised |-> TRUE, error |-> "ValueError"]
          ELSE
            LET st == IF n_rolling < 2 THEN NaNStats ELSE timeseries.stats
                warning_level == WarningLevel(WarningHalves(self, st))
            IN  [raised |-> FALSE,
                 result |->
                   [critical_slowing_down |-> warning_level >= 2,
                    warning_level |-> warning_level,
                    variance_trend |-> st.tau_var,
                    autocorrelation_trend |-> st.tau_ac,
                    skewness_trend |-> st.tau_skew,
                    recovery_rate_trend |-> st.tau_rec,
                    estimated_months |->
                        estimate_time_to_tipping(st.tau_var, st.tau_ac,
                                                 n_points, timestamps),
                    confidence |->
                        calculate_confidence(warning_level, st.p_var, st.p_ac,
                                             n_points),
                    metrics |-> [trends |-> st,
                                 indicators |-> Indicators(self, st),
                                 n_points |-> n_points,
                                 window_size |-> self.window],
                    metadata |-> [variable_name |-> variable_name,
                                  detrended |-> self.detrend,
                                  lag |-> self.lag,
                                  significance_level |-> self.significance_level]]]

\* a column read that returns the first column whatever the index
Column_First(data_matrix, i) == data_matrix[1]

\* data_matrix[:, i]: the matrix is kept as the sequence of its columns
Column(data_matrix, i) == data_matrix[i]

\* the loop of detect_multivariate, from position i: the dict built, or the error
\* of the first detect that raises (IndexError when there is no column i)
RECURSIVE MultivariateLoop(_, _, _, _, _, _, _)
MultivariateLoop(scipy_available, self, data_matrix, variable_names, timestamps, i, results) ==
    IF i > Len(variable_names) THEN [raised |-> FALSE, result |-> results]
    ELSE IF i > Len(data_matrix) THEN [raised |-> TRUE, error |-> "IndexError"]
    ELSE LET name == variable_names[i]
             one == detect(scipy_available, self, Column(data_matrix, i),
                           timestamps, name)
         IN  IF one.raised THEN one
             ELSE MultivariateLoop(scipy_available, self, data_matrix,
                                   variable_names, timestamps, i + 1,
                                   (name :> one.result) @@ results)

\* TippingPointDetector.detect_multivariate(data_matrix, variable_names, timestamps)
detect_multivariate(scipy_available, self, data_matrix, variable_names, timestamps) ==
    MultivariateLoop(scipy_available, self, data_matrix, variable_names, timestamps,
                     1, << >>)

(***************************************************************************)
(* State.                                                                  *)
(***************************************************************************)
VARIABLES
    ibrArgs,      \* the mapping a caller hands to BIOTICACore.compute_ibr
    ibrRet,       \* what compute_ibr returned for ibrArgs, or NoCall
    ibrPc,        \* the caller's position: "start", "called", "raised"
    parameters,   \* IBRComposite.parameters
    plot_id,      \* IBRComposite.plot_id
    biome,        \* IBRComposite.biome
    last,         \* the latest call on the IBRComposite: its arguments and outcome
    nMutations,   \* how many calls have written to IBRComposite.parameters
    results,      \* IBRBatchProcessor.results
    batchLast,    \* the latest call on the IBRBatchProcessor: its argument and outcome
    SCIPY_AVAILABLE, \* tipping_points.SCIPY_AVAILABLE, fixed when the module is imported
    detector,     \* the TippingPointDetector's fields
    tpLast        \* the latest call on the TippingPointDetector: its arguments and outcome

vars == <<ibrArgs, ibrRet, ibrPc, parameters, plot_id, biome, last, nMutations,
          results, batchLast, SCIPY_AVAILABLE, detector, tpLast>>

ibrVars == <<ibrArgs, ibrRet, ibrPc>>
compositeVars == <<parameters, plot_id, biome, last, nMutations>>
batchVars == <<results, batchLast>>
detectVars == <<SCIPY_AVAILABLE, detector, tpLast>>

NoCall == [op |-> "none"]

\* no IBRBatchProcessor has been used
NoBatch ==
    /\ results = <<>>
    /\ batchLast = NoCall

\* no TippingPointDetector has been built
NoDetector ==
    /\ SCIPY_AVAILABLE = TRUE
    /\ detector = NoCall
    /\ tpLast = NoCall

(***************************************************************************)
(* SpecIbr: BIOTICACore.compute_ibr as a function of its argument.         *)
(***************************************************************************)
\* the names a mapping may use: the nine parameters and one unknown name
IbrNames == DOMAIN IBR_WEIGHTS \cup {"XTRA"}

\* the values a mapping may hold, in hundredths; 120 is outside [0,1]
ArgValues == {0, 100, 120}

InRange(v) == 0 <= v /\ v <= 100

OutOfRangeCount(m) == Cardinality({n \in DOMAIN m : ~InRange(m[n])})

\* the mappings handed to compute_ibr; the unknown name, when present, holds 1.0 or 1.2
IbrArgsSet ==
    {m \in UNION {[S -> ArgValues] : S \in SUBSET IbrNames} :
        /\ OutOfRangeCount(m) <= MaxOutOfRange
        /\ "XTRA" \in DOMAIN m => m["XTRA"] >= 100}

\* IBRComposite.__init__(plot_id=plot, biome=b)
Construct(plot, b) ==
    /\ parameters = NoParameters
    /\ plot_id = plot
    /\ biome = b
    /\ last = NoCall
    /\ nMutations = 0

InitIbr ==
    /\ ibrArgs \in IbrArgsSet
    /\ ibrRet = NoCall
    /\ ibrPc = "start"
    /\ Construct("None", "None")
    /\ NoBatch
    /\ NoDetector

\* result = core.compute_ibr(params)
CallComputeIbr ==
    /\ ibrPc = "start"
    /\ ibrRet' = compute_ibr(ibrArgs)
    /\ ibrPc' = "called"
    /\ UNCHANGED <<ibrArgs, compositeVars, batchVars, detectVars>>

\* a second call, on the same mapping with the value of parameter p raised to u
CallComputeIbrRaised(p, u) ==
    /\ ibrPc = "called"
    /\ p \in DOMAIN ibrArgs
    /\ u > ibrArgs[p]
    /\ ibrArgs' = [ibrArgs EXCEPT ![p] = u]
    /\ ibrArgs' \in IbrArgsSet
    /\ ibrRet' = compute_ibr(ibrArgs')
    /\ ibrPc' = "raised"
    /\ UNCHANGED <<compositeVars, batchVars, detectVars>>

NextIbr ==
    \/ CallComputeIbr
    \/ \E p \in IbrNames, u \in ArgValues : CallComputeIbrRaised(p, u)

SpecIbr == InitIbr /\ [][NextIbr]_vars

(***************************************************************************)
(* Spec: one IBRComposite and the calls made on it.                        *)
(***************************************************************************)
\* names that are in no weight table
ExtraNames == {"XTRA", "MissingData"}

\* the names the single-parameter setters are called with
SetNames == {"VCA", "MDI"} \cup ExtraNames

\* the values set_parameter is called with, in hundredths
SetValues == {-10, 0, 60, 100, 120}

\* the uncertainty arguments of set_parameter: None, 0 and 0.03
SetUncertainties == {{}, {0}, {3}}

\* the ParameterResult objects set_parameter_result is called with
ResultValues == {-10, 50}
ResultUncertainties == {5, 500}
ResultSamples ==
    {[value |-> value, uncertainty |-> uncertainty, confidence |-> 95] :
        value \in ResultValues, uncertainty \in ResultUncertainties}

Uniform(v) == [i \in 1..Len(WeightOrder) |-> [name |-> WeightOrder[i], value |-> v]]

\* the mappings set_parameters is called with, as their items in order
SampleMappings ==
    {Uniform(v) : v \in {0, 45, 50, 60, 100}}
    \cup {<<[name |-> "VCA", value |-> 85], [name |-> "MDI", value |-> 78],
            [name |-> "PTS", value |-> 82], [name |-> "HFI", value |-> 71],
            [name |-> "BNC", value |-> 68], [name |-> "SGH", value |-> 73],
            [name |-> "AES", value |-> 88], [name |-> "TMI", value |-> 79],
            [name |-> "RRC", value |-> 65]>>,
          <<[name |-> "VCA", value |-> 50], [name |-> "MDI", value |-> 150],
            [name |-> "PTS", value |-> 50]>>,
          <<[name |-> "VCA", value |-> 85], [name |-> "MDI", value |-> 78]>>}

GroupFields(S) == UNION {RawGroups[n] : n \in S}

\* the field sets of the raw records compute_from_raw is called with: every group;
\* the test fixture's record (no trophic and no recovery fields); the module's
\* example record; a record with two of the three vegetation fields; an empty one
SampleFieldSets ==
    {GroupFields(DOMAIN RawGroups) \cup {"senescence_doy"},
     GroupFields(DOMAIN RawGroups \ {"TMI", "RRC"}),
     GroupFields({"VCA", "MDI", "PTS", "HFI"}),
     {"ndvi", "lai"} \cup GroupFields({"MDI"}),
     {}}

RawLevels == {0, 70}

RawSamples == {[fields |-> f, level |-> l] : f \in SampleFieldSets, l \in RawLevels}

\* the constructor's arguments: IBRComposite() and
\* IBRComposite(plot_id="test_001", biome=BiomeType.TROPICAL_FOREST)
Instances ==
    {[plot_id |-> "None", biome |-> "None"],
     [plot_id |-> "test_001", biome |-> "tropical_forest"]}

Init ==
    /\ ibrArgs = NoParameters
    /\ ibrRet = NoCall
    /\ ibrPc = "start"
    /\ \E inst \in Instances : Construct(inst.plot_id, inst.biome)
    /\ NoBatch
    /\ NoDetector

\* ibr.set_parameter(name, value, uncertainty)
SetParameter(name, value, uncertainty) ==
    LET out == set_parameter(parameters, name, value, uncertainty)
    IN  /\ nMutations < MaxMutations
        /\ nMutations' = nMutations + 1
        /\ parameters' = out.parameters
        /\ last' = [op |-> "set_parameter", name |-> name, value |-> value,
                    uncertainty |-> uncertainty, raised |-> out.raised]
        /\ UNCHANGED <<plot_id, biome, ibrVars, batchVars, detectVars>>

\* ibr.set_parameters(params)
SetParameters(params) ==
    LET out == set_parameters(parameters, params)
    IN  /\ nMutations < MaxMutations
        /\ nMutations' = nMutations + 1
        /\ parameters' = out.parameters
        /\ last' = [op |-> "set_parameters", params |-> params, raised |-> out.raised]
        /\ UNCHANGED <<plot_id, biome, ibrVars, batchVars, detectVars>>

\* ibr.set_parameter_result(name, result)
SetParameterResult(name, result) ==
    /\ nMutations < MaxMutations
    /\ nMutations' = nMutations + 1
    /\ parameters' = set_parameter_result(parameters, name, result)
    /\ last' = [op |-> "set_parameter_result", name |-> name, result |-> result,
                raised |-> FALSE]
    /\ UNCHANGED <<plot_id, biome, ibrVars, batchVars, detectVars>>

\* ibr.validate_parameters()
ValidateParameters ==
    /\ last' = [op |-> "validate_parameters", raised |-> FALSE,
                ret |-> validate_parameters(parameters)]
    /\ UNCHANGED <<parameters, nMutations, plot_id, biome, ibrVars, batchVars, detectVars>>

\* what a recorded call returned or raised, without its arguments
Outcome(call) ==
    IF call.raised THEN [raised |-> TRUE, error |-> call.error]
    ELSE [raised |-> FALSE, result |-> call.result]

\* the outcome of the call before this one, when that was compute(validate) too
PrevCompute(validate) ==
    IF last.op = "compute" /\ last.validate = validate THEN Outcome(last) ELSE NoCall

\* a compute that writes the values it extracted back into self.parameters
Compute_WritesBack(validate) ==
    /\ last' = [op |-> "compute", validate |-> validate, prev |-> PrevCompute(validate)]
               @@ compute(parameters, plot_id, biome, validate)
    /\ parameters' = [n \in DOMAIN parameters \cap DOMAIN IBR_WEIGHTS |-> parameters[n]]
    /\ UNCHANGED <<nMutations, plot_id, biome, ibrVars, batchVars, detectVars>>

\* ibr.compute(validate)
Compute(validate) ==
    /\ last' = [op |-> "compute", validate |-> validate, prev |-> PrevCompute(validate)]
               @@ compute(parameters, plot_id, biome, validate)
    /\ UNCHANGED <<parameters, nMutations, plot_id, biome, ibrVars, batchVars, detectVars>>

\* a compute_from_raw that does not clear self.parameters first
ComputeFromRaw_NoClear(raw) ==
    LET derived == DeriveLoop(parameters, raw, 1)
    IN  /\ nMutations < MaxMutations
        /\ nMutations' = nMutations + 1
        /\ parameters' = derived
        /\ last' = [op |-> "compute_from_raw", raw |-> raw]
                   @@ compute(derived, plot_id, biome, TRUE)
        /\ UNCHANGED <<plot_id, biome, ibrVars, batchVars, detectVars>>

\* ibr.compute_from_raw(raw)
ComputeFromRaw(raw) ==
    LET out == compute_from_raw(plot_id, biome, raw)
    IN  /\ nMutations < MaxMutations
        /\ nMutations' = nMutations + 1
        /\ parameters' = out.parameters
        /\ last' = [op |-> "compute_from_raw", raw |-> raw] @@ out.outcome
        /\ UNCHANGED <<plot_id, biome, ibrVars, batchVars, detectVars>>

\* the clock readings datetime.now gives when a result is built
Timestamps ==
    {[day |-> 1, microsecond |-> 0], [day |-> 2, microsecond |-> 500000]}

\* result.to_dict(), on the result the latest compute returned
ToDict(timestamp) ==
    /\ last.op \in {"compute", "compute_from_raw"}
    /\ ~last.raised
    /\ last' = [op |-> "to_dict", raised |-> FALSE,
                self |-> IBRResult(last.result, timestamp),
                ret |-> to_dict(IBRResult(last.result, timestamp))]
    /\ UNCHANGED <<parameters, nMutations, plot_id, biome, ibrVars, batchVars, detectVars>>

Next ==
    \/ \E timestamp \in Timestamps : ToDict(timestamp)
    \/ \E name \in SetNames, value \in SetValues, uncertainty \in SetUncertainties :
          SetParameter(name, value, uncertainty)
    \/ \E params \in SampleMappings : SetParameters(params)
    \/ \E name \in SetNames, result \in ResultSamples : SetParameterResult(name, result)
    \/ ValidateParameters
    \/ \E validate \in BOOLEAN : Compute(validate)
    \/ \E raw \in RawSamples : ComputeFromRaw(raw)

Spec == Init /\ [][Next]_vars

(***************************************************************************)
(* SpecBatch: one IBRBatchProcessor and the calls made on it.              *)
(***************************************************************************)
\* the longest list handed to process_batch
MaxBatch == 2

\* IBRBatchProcessor.process_plot(plot_data): a new IBRComposite with the record's
\* plot_id and biome (None when the key is absent), then compute_from_raw
process_plot(plot_data) ==
    compute_from_raw(plot_data.plot_id, plot_data.biome, plot_data.raw).outcome

\* [self.process_plot(plot) for plot in plots], from position i: the list built,
\* or the error of the first process_plot that raises
RECURSIVE ProcessLoop(_, _, _)
ProcessLoop(plots, i, acc) ==
    IF i > Len(plots) THEN [raised |-> FALSE, ret |-> acc]
    ELSE LET one == process_plot(plots[i])
         IN  IF one.raised THEN [raised |-> TRUE, error |-> one.error]
             ELSE ProcessLoop(plots, i + 1, Append(acc, one.result))

\* IBRBatchProcessor.process_batch(plots)
process_batch(plots) == ProcessLoop(plots, 1, << >>)

\* the records handed to the processor: two plots, each with every raw field at a
\* reading above 0, every raw field at reading 0, or the raw fields of the test
\* fixture (no trophic and no recovery fields)
PlotSamples ==
    {[plot_id |-> inst.plot_id, biome |-> inst.biome, raw |-> raw] :
        inst \in {[plot_id |-> "test_001", biome |-> "tropical_forest"],
                  [plot_id |-> "test_002", biome |-> "None"]},
        raw \in {[fields |-> GroupFields(DOMAIN RawGroups), level |-> 70],
                 [fields |-> GroupFields(DOMAIN RawGroups), level |-> 0],
                 [fields |-> GroupFields(DOMAIN RawGroups \ {"TMI", "RRC"}),
                  level |-> 70]}}

\* the lists of at most MaxBatch records
BatchSamples == UNION {[1..n -> PlotSamples] : n \in 0..MaxBatch}

\* IBRBatchProcessor()
InitBatch ==
    /\ ibrArgs = NoParameters
    /\ ibrRet = NoCall
    /\ ibrPc = "start"
    /\ Construct("None", "None")
    /\ NoBatch
    /\ NoDetector

\* processor.process_plot(plot_data)
ProcessPlot(plot_data) ==
    /\ batchLast' = [op |-> "process_plot", plot_data |-> plot_data]
                    @@ process_plot(plot_data)
    /\ UNCHANGED <<results, ibrVars, compositeVars, detectVars>>

\* processor.process_batch(plots): self.results is assigned when the whole list
\* has been built
ProcessBatch(plots) ==
    LET out == process_batch(plots)
    IN  /\ batchLast' = [op |-> "process_batch", plots |-> plots] @@ out
        /\ results' = IF out.raised THEN results ELSE out.ret
        /\ UNCHANGED <<ibrVars, compositeVars, detectVars>>

NextBatch ==
    \/ \E plot_data \in PlotSamples : ProcessPlot(plot_data)
    \/ \E plots \in BatchSamples : ProcessBatch(plots)

SpecBatch == InitBatch /\ [][NextBatch]_vars

(***************************************************************************)
(* SpecDetect: one TippingPointDetector and the detect calls made on it.   *)
(***************************************************************************)
\* TippingPointDetector(), TippingPointDetector(window=30, lag=1,
\* min_data_points=50), TippingPointDetector(min_data_points=100) without
\* detrending, and a detector whose window is longer than min_data_points
DetectorConfigs ==
    {NewDetector(24, 1, 50, 50, TRUE),
     NewDetector(30, 1, 50, 50, TRUE),
     NewDetector(24, 1, 100, 50, FALSE),
     NewDetector(60, 1, 50, 50, TRUE)}

\* what kendalltau returns for the variance and the autocorrelation sequences
VarTrends == {-40, 10, 15, 20, 25, 40}

VarPValues == {5, 30, 50, 500}

AcTrends == {0, 15, 25}

AcPValues == {5, 30, 500}

\* and for the skewness and the recovery-rate sequences: significant or not
SkewSamples == {[tau |-> 20, p |-> 30], [tau |-> 0, p |-> 500]}

RecSamples == {[tau |-> -20, p |-> 30], [tau |-> 0, p |-> 500]}

\* both supporting indicators significant, or neither
SupportSamples == {j \in SkewSamples \X RecSamples : j[1].p = j[2].p}

StatsGrid ==
    {[tau_var |-> tv, p_var |-> pv, tau_ac |-> ta, p_ac |-> pa,
      tau_skew |-> j[1].tau, p_skew |-> j[1].p,
      tau_rec |-> j[2].tau, p_rec |-> j[2].p] :
        tv \in VarTrends, pv \in VarPValues, ta \in AcTrends, pa \in AcPValues,
        j \in SupportSamples}

\* a strongly trending series, a weakly trending one, one whose skewness alone
\* changes, one whose recovery alone slows, and a constant one
StatsFew ==
    {[tau_var |-> 40, p_var |-> 5, tau_ac |-> 40, p_ac |-> 5,
      tau_skew |-> 20, p_skew |-> 30, tau_rec |-> -20, p_rec |-> 30],
     [tau_var |-> 15, p_var |-> 500, tau_ac |-> 0, p_ac |-> 500,
      tau_skew |-> 0, p_skew |-> 500, tau_rec |-> 0, p_rec |-> 500],
     [tau_var |-> 25, p_var |-> 30, tau_ac |-> 15, p_ac |-> 500,
      tau_skew |-> -20, p_skew |-> 30, tau_rec |-> 0, p_rec |-> 500],
     [tau_var |-> 15, p_var |-> 500, tau_ac |-> 25, p_ac |-> 30,
      tau_skew |-> 0, p_skew |-> 500, tau_rec |-> -20, p_rec |-> 30],
     NaNStats}

\* the lengths of the series handed to detect, and how many entries are NaN
SeriesLengths == {10, 50, 55, 60, 150, 250}

SeriesNaNs == {0, 5}

\* timestamps: None, or days with a median step of a day, a month, over a year
TimestampSamples == {{}, {1}, {30}, {400}}

\* the calls detect(timeseries, timestamps): every statistic on one length, and
\* every length and timestamp spacing on a few statistics
DetectCalls ==
    {[timeseries |-> [len |-> 150, nans |-> 0, stats |-> st], timestamps |-> {}] :
        st \in StatsGrid}
    \cup {[timeseries |-> [len |-> n, nans |-> k, stats |-> st], timestamps |-> ts] :
            n \in SeriesLengths, k \in SeriesNaNs, st \in StatsFew,
            ts \in TimestampSamples}

\* import of the module, then TippingPointDetector(...)
InitDetect ==
    /\ ibrArgs = NoParameters
    /\ ibrRet = NoCall
    /\ ibrPc = "start"
    /\ Construct("None", "None")
    /\ NoBatch
    /\ SCIPY_AVAILABLE \in BOOLEAN
    /\ detector \in DetectorConfigs
    /\ tpLast = NoCall

\* detector.detect(timeseries, timestamps)
Detect(timeseries, timestamps) ==
    /\ tpLast' = [op |-> "detect", timeseries |-> timeseries, timestamps |-> timestamps]
                 @@ detect(SCIPY_AVAILABLE, detector, timeseries, timestamps, "IBR")
    /\ UNCHANGED <<SCIPY_AVAILABLE, detector, ibrVars, compositeVars, batchVars>>

NextDetect == \E call \in DetectCalls : Detect(call.timeseries, call.timestamps)

SpecDetect == InitDetect /\ [][NextDetect]_vars

(***************************************************************************)
(* SpecMultivariate: one TippingPointDetector with detect and              *)
(* detect_multivariate calls made on it in any order.                      *)
(***************************************************************************)
\* the series handed to detect between two detect_multivariate calls
FewCalls ==
    {[timeseries |-> [len |-> n, nans |-> 0, stats |-> st], timestamps |-> ts] :
        n \in SeriesLengths, st \in StatsFew, ts \in {{}, {30}}}

\* the columns of a matrix of n rows: a strongly trending series, a weakly
\* trending one, and a constant one with NaN entries
Columns(n) ==
    {[len |-> n, nans |-> 0, stats |-> st] :
        st \in {x \in StatsFew : x # NaNStats /\ x.tau_skew >= 0 /\ x.tau_ac # 25}}
    \cup {[len |-> n, nans |-> 5, stats |-> NaNStats]}

\* matrices of 150 and of 55 rows with one or two columns
MatrixSamples ==
    UNION {[1..k -> Columns(n)] : k \in 1..2, n \in {55, 150}}

\* variable_names: as many as columns, fewer, more, and one name twice
NameSamples ==
    {<<"Var1">>, <<"Var1", "Var2">>, <<"Var1", "Var1">>, <<"Var1", "Var2", "Var3">>}

\* detector.detect_multivariate(data_matrix, variable_names, timestamps)
DetectMultivariate(data_matrix, variable_names, timestamps) ==
    /\ tpLast' = [op |-> "detect_multivariate", data_matrix |-> data_matrix,
                  variable_names |-> variable_names, timestamps |-> timestamps]
                 @@ detect_multivariate(SCIPY_AVAILABLE, detector, data_matrix,
                                        variable_names, timestamps)
    /\ UNCHANGED <<SCIPY_AVAILABLE, detector, ibrVars, compositeVars, batchVars>>

NextMultivariate ==
    \/ \E call \in FewCalls : Detect(call.timeseries, call.timestamps)
    \/ \E data_matrix \in MatrixSamples, variable_names \in NameSamples,
          timestamps \in {{}, {30}} :
          DetectMultivariate(data_matrix, variable_names, timestamps)

SpecMultivariate == InitDetect /\ [][NextMultivariate]_vars

(***************************************************************************)
(* Properties of compute_ibr, checked under SpecIbr.                       *)
(***************************************************************************)
RECURSIVE SumOver(_, _)
SumOver(S, f) ==
    IF S = {} THEN 0
    ELSE LET x == CHOOSE y \in S : TRUE IN f[x] + SumOver(S \ {x}, f)

\* the parameters present in both the mapping and the weight table
UsedNames(m) == DOMAIN m \cap DOMAIN IBR_WEIGHTS

WeightedSum(m) == SumOver(UsedNames(m), [n \in UsedNames(m) |-> m[n] * IBR_WEIGHTS[n]])

WeightsUsed(m) == SumOver(UsedNames(m), [n \in UsedNames(m) |-> IBR_WEIGHTS[n]])

Tier(c) ==
    CASE c = "PRISTINE" -> 4
      [] c = "FUNCTIONAL" -> 3
      [] c = "IMPAIRED" -> 2
      [] c = "DEGRADED" -> 1
      [] c = "COLLAPSED" -> 0

\* C1: the class of a normalized score s is PRISTINE for s > 0.88, FUNCTIONAL for
\* 0.75 < s <= 0.88, IMPAIRED for 0.60 < s <= 0.75, DEGRADED for 0.45 < s <= 0.60
\* and COLLAPSED for s <= 0.45: a score equal to a boundary is in the lower class.
C1_ClassificationTable ==
    ibrRet # NoCall =>
        LET s == ibrRet.normalized_score
            c == ibrRet.classification
        IN  /\ c \in IBRClass
            /\ c = "PRISTINE" <=> s.num > 88 * s.den
            /\ c = "FUNCTIONAL" <=> (s.num > 75 * s.den /\ s.num <= 88 * s.den)
            /\ c = "IMPAIRED" <=> (s.num > 60 * s.den /\ s.num <= 75 * s.den)
            /\ c = "DEGRADED" <=> (s.num > 45 * s.den /\ s.num <= 60 * s.den)
            /\ c = "COLLAPSED" <=> s.num <= 45 * s.den

\* a normalized score of exactly 0.88 has been classified
C1_Witness ==
    /\ ibrRet # NoCall
    /\ ibrRet.normalized_score.num = 88 * ibrRet.normalized_score.den
    /\ ibrRet.classification = "FUNCTIONAL"

\* C2: score is the sum of value*weight over the parameters present in both the
\* mapping and the weight table, and contributions holds value*weight for exactly
\* those parameters (nine entries when all nine are supplied).
C2_WeightedSum ==
    ibrRet # NoCall =>
        /\ ibrRet.score = WeightedSum(ibrArgs)
        /\ DOMAIN ibrRet.contributions = UsedNames(ibrArgs)
        /\ \A n \in UsedNames(ibrArgs) :
              ibrRet.contributions[n] = ibrArgs[n] * IBR_WEIGHTS[n]
        /\ DOMAIN IBR_WEIGHTS \subseteq DOMAIN ibrArgs =>
              Cardinality(DOMAIN ibrRet.contributions) = 9

\* all nine parameters and an unknown name were supplied
C2_Witness ==
    /\ ibrRet # NoCall
    /\ DOMAIN ibrArgs = IbrNames
    /\ Cardinality(DOMAIN ibrRet.contributions) = 9
    /\ ibrRet.score > 0

\* C3: normalized_score times the sum of the weights used is the weighted sum of
\* the supplied values; with no supplied parameter in the weight table it is 0.
C3_WeightedAverage ==
    ibrRet # NoCall =>
        LET s == ibrRet.normalized_score
        IN  /\ s.den > 0
            /\ IF UsedNames(ibrArgs) = {}
               THEN s.num = 0
               ELSE s.num * WeightsUsed(ibrArgs) = WeightedSum(ibrArgs) * s.den

\* a strict, non-empty subset was supplied and its weighted average is 1.0
C3_Witness ==
    /\ ibrRet # NoCall
    /\ UsedNames(ibrArgs) = {"VCA", "MDI"}
    /\ ibrRet.score = 3500
    /\ ibrRet.normalized_score.num = 100 * ibrRet.normalized_score.den

\* C9: when every supplied value is in [0,1], score and normalized_score are in [0,1].
C9_ScoreInUnitInterval ==
    (ibrRet # NoCall /\ \A n \in DOMAIN ibrArgs : InRange(ibrArgs[n])) =>
        LET s == ibrRet.normalized_score
        IN  /\ 0 <= ibrRet.score /\ ibrRet.score <= 10000
            /\ s.den > 0
            /\ 0 <= s.num /\ s.num <= 100 * s.den

\* all nine parameters at 1.0: the score reaches the upper end of the interval
C9_Witness ==
    /\ ibrRet # NoCall
    /\ DOMAIN IBR_WEIGHTS \subseteq DOMAIN ibrArgs
    /\ \A n \in DOMAIN ibrArgs : ibrArgs[n] = 100
    /\ ibrRet.score = 10000

\* C10: a call on the mapping with one value raised returns a normalized_score that
\* is not lower and a classification that is not in a lower tier.
C10_Monotone ==
    [][(ibrPc = "called" /\ ibrPc' = "raised") =>
        LET s == ibrRet.normalized_score
            t == ibrRet'.normalized_score
        IN  /\ \E p \in DOMAIN ibrArgs :
                 /\ ibrArgs'[p] > ibrArgs[p]
                 /\ \A n \in DOMAIN ibrArgs \ {p} : ibrArgs'[n] = ibrArgs[n]
            /\ DOMAIN ibrArgs' = DOMAIN ibrArgs
            /\ t.num * s.den >= s.num * t.den
            /\ Tier(ibrRet'.classification) >= Tier(ibrRet.classification)]_vars

\* the call on a raised mapping has returned, and the raise was enough for PRISTINE
C10_Witness ==
    /\ ibrPc = "raised"
    /\ ibrRet.classification = "PRISTINE"
    /\ \E n \in UsedNames(ibrArgs) : ibrArgs[n] = 0

(***************************************************************************)
(* Properties of IBRComposite, checked under Spec.                         *)
(***************************************************************************)
\* the required parameters that are not stored
MissingNames == DOMAIN IBR_WEIGHTS \ DOMAIN parameters

\* the sum of the weights of the stored parameters that are in the weight table
StoredWeights ==
    SumOver(DOMAIN parameters \cap DOMAIN IBR_WEIGHTS,
            [n \in DOMAIN parameters \cap DOMAIN IBR_WEIGHTS |-> IBR_WEIGHTS[n]])

Returned == last.op \in {"compute", "compute_from_raw"} /\ ~last.raised

\* C4: the classification of every result compute returns is the threshold-table
\* class of score divided by the sum of the weights actually used.
C4_ClassOfNormalizedScore ==
    Returned =>
        last.result.classification
            = ClassifyNormalized(Normalize(last.result.score, StoredWeights))

C6_PartialComputeReturns ==
    (/\ last.op = "compute"
     /\ last.validate
     /\ DOMAIN parameters # {}
     /\ DOMAIN parameters \subseteq DOMAIN IBR_WEIGHTS
     /\ MissingNames # {}
     /\ \A n \in DOMAIN parameters : ~parameters[n].has_metadata
     /\ \E n \in DOMAIN parameters : parameters[n].value > 0) =>
        /\ ~last.raised
        /\ last.result.score > 0
        /\ last.result.plot_id = plot_id

\* C7: set_parameter with a value outside [0,1] raises and leaves the stored
\* parameters as they were; with a value in [0,1] it stores the value under the
\* name and changes no other entry.
C7_SetParameterStrict ==
    [][(last'.op = "set_parameter" /\ nMutations' = nMutations + 1) =>
        IF last'.value < 0 \/ last'.value > 100
        THEN /\ last'.raised
             /\ parameters' = parameters
        ELSE /\ ~last'.raised
             /\ DOMAIN parameters' = DOMAIN parameters \cup {last'.name}
             /\ parameters'[last'.name].value = last'.value
             /\ \A n \in DOMAIN parameters \ {last'.name} :
                   parameters'[n] = parameters[n]]_vars

\* set_parameter raised on a value above 1 while other parameters were stored
C7_Witness ==
    /\ last.op = "set_parameter"
    /\ last.raised
    /\ last.value > 100
    /\ DOMAIN parameters # {}

\* C8: compute_from_raw stores a parameter exactly when every raw field of its
\* group is in the record, and returns a result over the derived subset: with at
\* least one group complete (and readings above 0) it returns a result with
\* score > 0 and one contribution per derived parameter.
C8_RawSubsetYieldsResult ==
    last.op = "compute_from_raw" =>
        LET derived == {n \in DOMAIN RawGroups : RawGroups[n] \subseteq last.raw.fields}
        IN  /\ DOMAIN parameters = derived
            /\ (derived # {} /\ last.raw.level > 0) =>
                  /\ ~last.raised
                  /\ last.result.score > 0
                  /\ DOMAIN last.result.contributions = derived

(***************************************************************************)
(* Properties of repeated and partial calls on the IBRComposite, checked   *)
(* under Spec.                                                             *)
(***************************************************************************)
\* C11: compute leaves the stored parameters as they were, and a compute that
\* directly follows a compute with the same validate flag, no setter between,
\* returns the same score, classification, contributions, uncertainty and
\* warnings (or raises the same error).  The weight table IBR_WEIGHTS is a
\* class attribute no method assigns.
C11_ComputeRepeatable ==
    [][last'.op = "compute" =>
          /\ parameters' = parameters
          /\ last'.prev # NoCall => Outcome(last') = last'.prev]_vars

C11_Witness ==
    /\ last.op = "compute"
    /\ last.validate
    /\ last.prev # NoCall
    /\ ~last.raised
    /\ "XTRA" \in DOMAIN parameters

\* the stored parameters without those whose name is not in the weight table
WithoutExtra == [n \in DOMAIN parameters \cap DOMAIN IBR_WEIGHTS |-> parameters[n]]

\* C12: with a parameter stored whose name is not in the weight table,
\* validate_parameters reports an 'extra parameters' warning and is_valid is what
\* it would be without that parameter, and compute raises or returns as it would
\* without it, with the same score, contributions, uncertainty and classification.
C12_ExtraIsIgnored ==
    DOMAIN parameters \ DOMAIN IBR_WEIGHTS # {} =>
        /\ last.op = "validate_parameters" =>
              /\ \E w \in last.ret.warnings :
                    w.kind = "Extra" /\ w.names = DOMAIN parameters \ DOMAIN IBR_WEIGHTS
              /\ last.ret.is_valid = validate_parameters(WithoutExtra).is_valid
        /\ last.op = "compute" =>
              LET without == compute(WithoutExtra, plot_id, biome, last.validate)
              IN  /\ last.raised = without.raised
                  /\ ~last.raised =>
                        /\ last.result.score = without.result.score
                        /\ last.result.contributions = without.result.contributions
                        /\ last.result.uncertainty_sq = without.result.uncertainty_sq
                        /\ last.result.classification = without.result.classification

\* the parameters of the weight table stored through set_parameter_result with a
\* value outside [0,1]
OutOfRangeResults ==
    {n \in DOMAIN parameters \cap DOMAIN IBR_WEIGHTS :
        /\ parameters[n].has_metadata
        /\ ~(0 <= parameters[n].value /\ parameters[n].value <= 100)}

\* the stored parameters with the values outside [0,1] replaced by 0.5
InRangeInstead ==
    [n \in DOMAIN parameters |->
        IF n \in OutOfRangeResults
        THEN Entry(50, parameters[n].uncertainty, TRUE) ELSE parameters[n]]

\* C13: when all nine parameters are present and one of them was stored through
\* set_parameter_result with a value outside [0,1], compute(validate=True) raises
\* no more than it would with that value in range, and not at all when the nine
\* are the only stored names; the result has an out-of-range warning for that
\* parameter with its value, its contribution is value*weight and the score is
\* the weighted sum of the stored values, unclamped.
C13_OutOfRangeIsUsed ==
    (/\ last.op = "compute"
     /\ last.validate
     /\ MissingNames = {}
     /\ OutOfRangeResults # {}) =>
        /\ last.raised = compute(InRangeInstead, plot_id, biome, TRUE).raised
        /\ DOMAIN parameters = DOMAIN IBR_WEIGHTS => ~last.raised
        /\ ~last.raised =>
              /\ \A n \in OutOfRangeResults :
                    /\ Warning("OutOfRange", {n}, parameters[n].value)
                          \in last.result.warnings
                    /\ last.result.contributions[n]
                          = parameters[n].value * IBR_WEIGHTS[n]
              /\ last.result.score
                    = WeightedSum([n \in DOMAIN parameters |-> parameters[n].value])

\* compute() returned with all nine stored and VCA = -0.1 from set_parameter_result
C13_Witness ==
    /\ last.op = "compute"
    /\ last.validate
    /\ ~last.raised
    /\ MissingNames = {}
    /\ "VCA" \in OutOfRangeResults
    /\ last.result.contributions["VCA"] < 0

\* the post-score notices among the warnings of the result
Notices == {w.kind : w \in last.result.warnings} \cap {"COLLAPSED", "DEGRADED"}

\* C14: the warnings of a result compute returns hold the COLLAPSED notice, and
\* not the DEGRADED one, when the score is below 0.45; the DEGRADED notice, and
\* not the COLLAPSED one, when 0.45 < score < 0.60; neither when score > 0.60.
C14_ScoreNotices ==
    Returned =>
        /\ last.result.score < 4500 => Notices = {"COLLAPSED"}
        /\ (4500 < last.result.score /\ last.result.score < 6000) =>
              Notices = {"DEGRADED"}
        /\ last.result.score > 6000 => Notices = {}

\* compute() returned the score 0.50 with the DEGRADED notice
C14_Witness ==
    /\ last.op = "compute"
    /\ ~last.raised
    /\ last.result.score = 5000
    /\ Notices = {"DEGRADED"}

\* C15: a set_parameter that does not raise stores the supplied uncertainty
\* exactly, 0 included, and stores the default 0.05 only when none was supplied.
C15_UncertaintyStored ==
    (last.op = "set_parameter" /\ ~last.raised) =>
        parameters[last.name].uncertainty
            = (IF last.uncertainty = {} THEN 5
               ELSE CHOOSE u \in last.uncertainty : TRUE)

\* sum over the stored weight-table parameters of weight^2 * uncertainty^2, in
\* units of 10^-8
PropagatedSq ==
    SumOver(DOMAIN parameters \cap DOMAIN IBR_WEIGHTS,
            [n \in DOMAIN parameters \cap DOMAIN IBR_WEIGHTS |->
                IBR_WEIGHTS[n] * IBR_WEIGHTS[n]
                  * parameters[n].uncertainty * parameters[n].uncertainty])

\* C16: the squared uncertainty of a result is the sum of weight^2 * uncertainty^2
\* over the used parameters and is at most 1, so that uncertainty and
\* confidence = 1 - uncertainty both lie in [0,1].
C16_UncertaintyInUnitInterval ==
    Returned =>
        /\ last.result.uncertainty_sq = PropagatedSq
        /\ 0 <= last.result.uncertainty_sq
        /\ last.result.uncertainty_sq <= 100000000

(***************************************************************************)
(* Properties of the IBRBatchProcessor, checked under SpecBatch.           *)
(***************************************************************************)
\* C17: process_batch returns one IBRResult per record, in the order of the
\* records, each with its record's plot_id and equal to what process_plot
\* returns for that record alone; the list is also kept in self.results.
C17_OneResultPerRecord ==
    batchLast.op = "process_batch" =>
        /\ ~batchLast.raised
        /\ Len(batchLast.ret) = Len(batchLast.plots)
        /\ \A i \in 1..Len(batchLast.plots) :
              /\ batchLast.ret[i].plot_id = batchLast.plots[i].plot_id
              /\ ~process_plot(batchLast.plots[i]).raised
              /\ batchLast.ret[i] = process_plot(batchLast.plots[i]).result
        /\ results = batchLast.ret

(***************************************************************************)
(* Properties of the TippingPointDetector, checked under SpecDetect.       *)
(***************************************************************************)
\* the number of entries of the series of the latest call that are not NaN
ValidPoints == tpLast.timeseries.len - tpLast.timeseries.nans

\* C18: detect on a series that has fewer than min_data_points entries once the
\* NaN entries are dropped does not raise: it returns warning_level 0,
\* critical_slowing_down false, confidence 0, the four trends 0, and a metadata
\* with an 'error' entry.
C18_ShortSeriesDegrades ==
    (tpLast.op = "detect" /\ ValidPoints < detector.min_data_points) =>
        /\ ~tpLast.raised
        /\ tpLast.result.warning_level = 0
        /\ tpLast.result.critical_slowing_down = FALSE
        /\ tpLast.result.confidence = 0
        /\ tpLast.result.variance_trend = 0
        /\ tpLast.result.autocorrelation_trend = 0
        /\ tpLast.result.skewness_trend = 0
        /\ tpLast.result.recovery_rate_trend = 0
        /\ "error" \in DOMAIN tpLast.result.metadata

\* with SciPy present, a series as long as min_data_points but shorter once its
\* NaN entries are dropped, whose statistics would have raised the level
C18_Witness ==
    /\ SCIPY_AVAILABLE
    /\ tpLast.op = "detect"
    /\ tpLast.timeseries.len >= detector.min_data_points
    /\ ValidPoints < detector.min_data_points
    /\ ValidPoints >= detector.window
    /\ tpLast.timeseries.stats.tau_var = 40
    /\ tpLast.result.metadata.error = "Insufficient data"

\* C19: in every result detect returns, from the normal path or either degraded
\* path, warning_level is one of 0, 1, 2, 3 and critical_slowing_down is true
\* exactly when warning_level >= 2.
C19_WarningLevelRange ==
    (tpLast.op = "detect" /\ ~tpLast.raised) =>
        /\ tpLast.result.warning_level \in 0..3
        /\ tpLast.result.critical_slowing_down = (tpLast.result.warning_level >= 2)

\* a normal-path result with both key and both supporting indicators significant
C19_Witness ==
    /\ tpLast.op = "detect"
    /\ ~tpLast.raised
    /\ "error" \notin DOMAIN tpLast.result.metadata
    /\ Cardinality(tpLast.result.metrics.indicators) = 4
    /\ tpLast.result.warning_level = 3
    /\ tpLast.result.critical_slowing_down

Distinct(seq) == \A i, j \in 1..Len(seq) : seq[i] = seq[j] => i = j

\* C21: no call changes the detector's window, lag, min_data_points,
\* significance_level or detrend, and what a call returns depends on the
\* configuration and its own arguments alone, whatever was analysed before:
\* detect returns what detect returns on a detector just built, and
\* detect_multivariate, given distinct names that each have a column, raises
\* exactly when detect raises on one of these columns and otherwise returns one
\* entry per name, the entry of the i-th name being detect of column i.
C21_DetectorStateless ==
    [][/\ detector' = detector
       /\ SCIPY_AVAILABLE' = SCIPY_AVAILABLE
       /\ tpLast'.op = "detect" =>
             Outcome(tpLast')
                = detect(SCIPY_AVAILABLE, detector, tpLast'.timeseries,
                         tpLast'.timestamps, "IBR")
       /\ (/\ tpLast'.op = "detect_multivariate"
           /\ Distinct(tpLast'.variable_names)
           /\ Len(tpLast'.variable_names) <= Len(tpLast'.data_matrix)) =>
             LET names == tpLast'.variable_names
                 alone(i) == detect(SCIPY_AVAILABLE, detector,
                                    tpLast'.data_matrix[i], tpLast'.timestamps,
                                    names[i])
             IN  /\ tpLast'.raised = (\E i \in 1..Len(names) : alone(i).raised)
                 /\ ~tpLast'.raised =>
                       /\ DOMAIN tpLast'.result = {names[i] : i \in 1..Len(names)}
                       /\ Cardinality(DOMAIN tpLast'.result) = Len(names)
                       /\ \A i \in 1..Len(names) :
                             tpLast'.result[names[i]] = alone(i).result]_vars

\* a two-column matrix whose columns give different results, with SciPy present
C21_Witness ==
    /\ SCIPY_AVAILABLE
    /\ tpLast.op = "detect_multivariate"
    /\ ~tpLast.raised
    /\ tpLast.variable_names = <<"Var1", "Var2">>
    /\ Len(tpLast.data_matrix) = 2
    /\ tpLast.result["Var1"].warning_level = 3
    /\ tpLast.result["Var2"].warning_level = 0
    /\ tpLast.result["Var2"].metadata.variable_name = "Var2"

(***************************************************************************)
(* Properties of IBRResult.to_dict, checked under Spec.                    *)
(***************************************************************************)
\* the IBRResult fields of the data model
DataModelFields ==
    {"score", "normalized_score", "classification", "contributions",
     "uncertainty", "confidence", "warnings", "plot_id", "biome", "timestamp"}

\* reading a to_dict structure back: the member with the given value for
\* classification and biome, the timestamp its text stands for
FromDict(d) ==
    [score |-> d.score,
     classification |-> d.classification.value,
     contributions |-> d.contributions,
     uncertainty |-> d.uncertainty,
     confidence |-> d.confidence,
     timestamp |-> [day |-> d.timestamp[2], microsecond |-> d.timestamp[3]],
     plot_id |-> d.plot_id,
     biome |-> IF d.biome = {} THEN "None" ELSE (CHOOSE b \in d.biome : TRUE).value,
     warnings |-> d.warnings,
     metadata |-> d.metadata]

\* C22: the structure to_dict returns has an entry for every IBRResult field of
\* the data model, normalized_score among them, and every field of the result is
\* recovered from it.
C22_ToDictComplete ==
    last.op = "to_dict" =>
        /\ DataModelFields \subseteq DOMAIN last.ret
        /\ FromDict(last.ret) = last.self

(***************************************************************************)
(* Properties of the warning level, the month estimate and the confidence, *)
(* checked under SpecDetect.                                               *)
(***************************************************************************)
\* the latest call returned from the normal path of detect
NormalPath ==
    /\ tpLast.op = "detect"
    /\ ~tpLast.raised
    /\ "error" \notin DOMAIN tpLast.result.metadata

\* twice the points a key indicator adds: 1 if tau > 0.2 and p < alpha, else
\* 0.5 if tau > 0.1
KeyPoints2(tau, p) ==
    IF tau # NaN /\ p # NaN /\ tau > 20 /\ p < detector.significance_level THEN 2
    ELSE IF tau # NaN /\ tau > 10 THEN 1
    ELSE 0

\* C23: on the normal path warning_level = min(3, floor(a)), a being the sum of
\* the key points of variance and autocorrelation, 0.5 if |skewness tau| > 0.15
\* with p < alpha, and 0.5 if recovery tau < -0.15 with p < alpha; one half-point
\* indicator alone gives level 0, and level 3 is reached only with all four
\* indicators, both key ones significant.
C23_WarningAccumulation ==
    NormalPath =>
        LET st == tpLast.result.metrics.trends
            alpha == detector.significance_level
            var2 == KeyPoints2(st.tau_var, st.p_var)
            ac2 == KeyPoints2(st.tau_ac, st.p_ac)
            skew2 == IF st.tau_skew # NaN /\ st.p_skew # NaN /\ st.p_skew < alpha
                        /\ (st.tau_skew > 15 \/ st.tau_skew < -15) THEN 1 ELSE 0
            rec2 == IF st.tau_rec # NaN /\ st.p_rec # NaN /\ st.p_rec < alpha
                       /\ st.tau_rec < -15 THEN 1 ELSE 0
            a2 == var2 + ac2 + skew2 + rec2
        IN  /\ tpLast.result.warning_level = (IF a2 \div 2 < 3 THEN a2 \div 2 ELSE 3)
            /\ a2 = 1 => tpLast.result.warning_level = 0
            /\ tpLast.result.warning_level = 3 =>
                  var2 = 2 /\ ac2 = 2 /\ skew2 = 1 /\ rec2 = 1

\* one key indicator trending without significance, nothing else: level 0
C23_Witness ==
    /\ NormalPath
    /\ tpLast.result.metrics.indicators = {"variance_increase_trend"}
    /\ tpLast.result.metrics.trends.tau_var = 25
    /\ tpLast.result.metrics.trends.p_var = 50
    /\ tpLast.result.warning_level = 0

\* the categorical base value: 12, 24, 36 or 60 months from the mean of
\* |variance tau| and |autocorrelation tau| (a NaN mean compares false)
BaseMonths(st) ==
    LET sum == IF st.tau_var = NaN \/ st.tau_ac = NaN THEN NaN
               ELSE (IF st.tau_var < 0 THEN -st.tau_var ELSE st.tau_var)
                    + (IF st.tau_ac < 0 THEN -st.tau_ac ELSE st.tau_ac)
    IN  IF sum # NaN /\ sum > 60 THEN 12
        ELSE IF sum # NaN /\ sum > 40 THEN 24
        ELSE IF sum # NaN /\ sum > 20 THEN 36
        ELSE 60

\* C24: on the normal path estimated_months is the base value, scaled by the
\* median time step when timestamps are supplied: divided by 30.44 for day-scale
\* steps (to within a month of rounding), unchanged for monthly steps,
\* multiplied by 12 for annual steps; without timestamps it is the base value.
C24_MonthsScaled ==
    NormalPath =>
        LET base == BaseMonths(tpLast.result.metrics.trends)
            months == tpLast.result.estimated_months
        IN  IF tpLast.timestamps = {} THEN months = base
            ELSE LET median_step == CHOOSE d \in tpLast.timestamps : TRUE
                 IN  IF median_step <= 31
                     THEN /\ 3044 * months <= 100 * base + 3044
                          /\ 3044 * months >= 100 * base - 3044
                     ELSE IF median_step <= 365 THEN months = base
                     ELSE months = 12 * base

\* the bonus of a p-value: 0.2 below 0.01, else 0.1 below 0.05, else 0
PBonus(p) == IF p # NaN /\ p < 10 THEN 20 ELSE IF p # NaN /\ p < 50 THEN 10 ELSE 0

\* the bonus of the sample size: 0.2 above 200, else 0.1 above 100, else 0
NBonus(n) == IF n > 200 THEN 20 ELSE IF n > 100 THEN 10 ELSE 0

\* C25: the confidence of a normal-path result is
\* min(1.0, 0.2*warning_level + b_var + b_ac + b_n); the confidence of every
\* result lies in [0,1]; and with the p-values and the sample size of the call,
\* _calculate_confidence does not decrease from one warning level to the next.
C25_ConfidenceFormula ==
    (tpLast.op = "detect" /\ ~tpLast.raised) =>
        /\ 0 <= tpLast.result.confidence
        /\ tpLast.result.confidence <= 100
        /\ NormalPath =>
              LET st == tpLast.result.metrics.trends
                  n == tpLast.result.metrics.n_points
                  sum == 20 * tpLast.result.warning_level
                         + PBonus(st.p_var) + PBonus(st.p_ac) + NBonus(n)
              IN  /\ tpLast.result.confidence = (IF sum < 100 THEN sum ELSE 100)
                  /\ \A level \in 0..2 :
                        calculate_confidence(level, st.p_var, st.p_ac, n)
                           <= calculate_confidence(level + 1, st.p_var, st.p_ac, n)

\* level 3, both p-values below 0.01 and more than 200 points: 1.2 capped at 1.0
C25_Witness ==
    /\ NormalPath
    /\ tpLast.result.warning_level = 3
    /\ tpLast.result.metrics.trends.p_var = 5
    /\ tpLast.result.metrics.trends.p_ac = 5
    /\ tpLast.result.metrics.n_points > 200
    /\ tpLast.result.confidence = 100

(***************************************************************************)
(* Further properties of the IBRComposite, checked under Spec.             *)
(***************************************************************************)
\* C26: validate_parameters returns is_valid = false exactly when a required
\* parameter is absent from the store, whatever the stored names and values are.
C26_ValidIffNoneMissing ==
    last.op = "validate_parameters" =>
        last.ret.is_valid = (MissingNames = {})

\* C27: in every result compute returns on a complete parameter set, the
\* COLLAPSED notice is among the warnings exactly when the classification is
\* COLLAPSED and the DEGRADED notice exactly when it is DEGRADED, the scores
\* 0.45 and 0.60 included.
C27_NoticeMatchesClass ==
    (last.op = "compute" /\ ~last.raised /\ MissingNames = {}) =>
        /\ ("COLLAPSED" \in Notices) = (last.result.classification = "COLLAPSED")
        /\ ("DEGRADED" \in Notices) = (last.result.classification = "DEGRADED")

\* C28: after compute_from_raw(raw), returned or raised, the stored parameters
\* are exactly those whose raw group is complete in raw, each as derived from
\* raw; nothing stored before the call remains, and a returned result has
\* contributions for these parameters only.
C28_RawReplacesStore ==
    [][(last'.op = "compute_from_raw" /\ nMutations' = nMutations + 1) =>
          LET raw == last'.raw
              complete == {n \in DOMAIN RawGroups : RawGroups[n] \subseteq raw.fields}
          IN  /\ DOMAIN parameters' = complete
              /\ \A n \in complete :
                    /\ parameters'[n].has_metadata
                    /\ parameters'[n].value = ParameterFromRaw(n, raw).value
                    /\ parameters'[n].uncertainty = ParameterFromRaw(n, raw).uncertainty
              /\ ~last'.raised =>
                    /\ DOMAIN last'.result.contributions = complete
                    /\ \A n \in complete :
                          last'.result.contributions[n]
                             = ParameterFromRaw(n, raw).value * IBR_WEIGHTS[n]]_vars

\* compute_from_raw as the second writing call on the instance, on a record with
\* the diversity group alone complete: it raised and the store holds MDI alone
C28_Witness ==
    /\ last.op = "compute_from_raw"
    /\ nMutations = 2
    /\ last.raised
    /\ "ndvi" \in last.raw.fields
    /\ DOMAIN parameters = {"MDI"}

\* the items of a mapping that precede its first value outside [0,1]
RECURSIVE AcceptedPrefix(_)
AcceptedPrefix(params) ==
    IF params = << >> THEN << >>
    ELSE IF ~(0 <= Head(params).value /\ Head(params).value <= 100) THEN << >>
    ELSE <<Head(params)>> \o AcceptedPrefix(Tail(params))

\* every value stored through set_parameter or set_parameters lies in [0,1]
StrictValuesInRange ==
    \A n \in DOMAIN parameters :
        ~parameters[n].has_metadata =>
            0 <= parameters[n].value /\ parameters[n].value <= 100

\* C29 as stated: a set_parameters that raises leaves the stored parameters as
\* they were before the call.
C29_AllOrNothing ==
    [][(/\ last'.op = "set_parameters"
        /\ nMutations' = nMutations + 1
        /\ last'.raised) => parameters' = parameters]_vars

\* C29 amended: a set_parameters that raises has stored the items that precede
\* the first value outside [0,1], in the mapping's order, and none from there
\* on; the values stored through the strict setters all lie in [0,1].
C29_PrefixStored ==
    [][/\ (/\ last'.op = "set_parameters"
           /\ nMutations' = nMutations + 1
           /\ last'.raised) =>
              LET accepted == AcceptedPrefix(last'.params)
                  names == {accepted[i].name : i \in 1..Len(accepted)}
              IN  /\ Len(accepted) < Len(last'.params)
                  /\ DOMAIN parameters' = DOMAIN parameters \cup names
                  /\ \A i \in 1..Len(accepted) :
                        parameters'[accepted[i].name]
                           = Entry(accepted[i].value, 5, FALSE)
                  /\ \A n \in DOMAIN parameters \ names :
                        parameters'[n] = parameters[n]
       /\ StrictValuesInRange => StrictValuesInRange']_vars

\* set_parameters raised as the first writing call, on a mapping whose second
\* value is 1.5: the first item is in the store
C29_Witness ==
    /\ last.op = "set_parameters"
    /\ nMutations = 1
    /\ last.raised
    /\ last.params[2].value = 150
    /\ DOMAIN parameters = {last.params[1].name}

(***************************************************************************)
(* Further properties of the TippingPointDetector, checked under           *)
(* SpecDetect.                                                             *)
(***************************************************************************)
\* C30: detect does not raise, whatever the configuration and the series; with
\* min_data_points <= N <= window valid points it returns a result.
C30_DetectNeverRaises ==
    tpLast.op = "detect" => ~tpLast.raised

====
